---- MODULE Spec2Model ----
(***************************************************************************)
(* Model of utils/generate_xml_with_channel_groups.py: the annotator that  *)
(* rewrites a session-description XML template with channel groups, an     *)
(* optional date and optional brain-region labels.                         *)
(*                                                                         *)
(* The file system is the state.  A document is a record with one field    *)
(* per section the annotator looks up; an absent node (find() returning    *)
(* None) and Python's None are the empty sequence, a present value v is    *)
(* <<v>>.  Element text is a sequence of one-character strings, so that    *)
(* ' '.join and str() are computed, not assumed.                           *)
(***************************************************************************)
EXTENDS Integers, Sequences, FiniteSets, TLC

VARIABLES fs, pc, calls, args, pre, result, diag, pending, prev

vars == <<fs, pc, calls, args, pre, result, diag, pending, prev>>

(* ----------------------------- bounds ---------------------------------- *)
\* at most this many channel groups in one call
MaxGroups == 2
\* at most this many channel indices in one group
MaxGroupLen == 2
\* channel indices are drawn from 0..MaxChan
MaxChan == 1
\* a template differs from the full template in at most this many sections
MaxDeviations == 1
\* the annotator is run at most this many times
MaxCalls == 2

(* ------------------------- option values ------------------------------- *)
None == <<>>
Some(x) == <<x>>

Range(s) == {s[i] : i \in 1..Len(s)}

RECURSIVE SeqsUpTo(_, _)
SeqsUpTo(S, n) ==
  IF n = 0 THEN {<<>>}
  ELSE LET shorter == SeqsUpTo(S, n - 1)
       IN shorter \cup {Append(s, x) : s \in {t \in shorter : Len(t) = n - 1}, x \in S}

(* --------------------------- text helpers ------------------------------ *)
\* sep.join(parts): parts are texts (sequences of characters)
RECURSIVE Join(_)
Join(parts) ==
  IF parts = <<>> THEN <<>>
  ELSE IF Len(parts) = 1 THEN parts[1]
  ELSE parts[1] \o <<" ">> \o Join(Tail(parts))

\* a label is a text of at most one character here: '' or a one-letter name
LabelText(name) == IF name = "" THEN <<>> ELSE <<name>>

\* str(n) for a channel or group index
Str(n) == <<ToString(n)>>

(* ------------------------------ sorted() ------------------------------- *)
RECURSIVE Insert(_, _)
Insert(sorted, x) ==
  IF sorted = <<>> THEN <<x>>
  ELSE IF x < Head(sorted) THEN <<x>> \o sorted
  ELSE <<Head(sorted)>> \o Insert(Tail(sorted), x)

\* sorted(list): ascending, duplicates kept
RECURSIVE Sorted(_)
Sorted(list) == IF list = <<>> THEN <<>> ELSE Insert(Sorted(Tail(list)), Head(list))

(* ------------------------------ files ---------------------------------- *)
TemplatePath == "template.xml"
OutputPaths == {"template.xml", "output.xml"}

MissingFile == [exists |-> FALSE, data |-> <<>>]
\* content that some other program left at the output path
ForeignFile == [exists |-> TRUE, data |-> <<[kind |-> "foreign", doc |-> <<>>]>>]
XmlFile(doc) == [exists |-> TRUE, data |-> <<[kind |-> "xml", doc |-> <<doc>>]>>]

\* ET.parse succeeds on a file that holds exactly one complete document
Parseable(f) == f.exists /\ Len(f.data) = 1 /\ f.data[1].kind = "xml"
Parse(f) == f.data[1].doc[1]

\* open(path, 'a') keeps what the file holds
OpenA(f) == [exists |-> TRUE, data |-> f.data]
\* open(path, 'w') creates the file or truncates it
OpenW(f) == [exists |-> TRUE, data |-> <<>>]

\* f.write(pretty_xml) followed by the close of the with block
WriteAll(f, chunk) == [f EXCEPT !.data = @ \o <<chunk>>]
\* a write that fails part-way leaves a proper prefix of the text
WritePart(f, chunk) == [f EXCEPT !.data = @ \o <<[chunk EXCEPT !.kind = "partial"]>>]

(* --------------------------- prettify_xml ------------------------------ *)
\* the lines of an element's text between its first and its last line
RECURSIVE DropBlank(_)
DropBlank(lines) ==
  IF lines = <<>> THEN <<>>
  ELSE IF Head(lines) = "" THEN DropBlank(Tail(lines))
  ELSE <<Head(lines)>> \o DropBlank(Tail(lines))

\* the first and last line of a text share a line with the element's tags and
\* are never blank; every blank line in between is filtered out
StripBlankLines(lines) ==
  IF Len(lines) <= 2 THEN lines
  ELSE <<lines[1]>> \o DropBlank(SubSeq(lines, 2, Len(lines) - 1)) \o <<lines[Len(lines)]>>

\* the other texts of the model (date, region, channels) hold no line break
prettify_xml(root) ==
  [kind |-> "xml", doc |-> <<[root EXCEPT !.notes = StripBlankLines(@)]>>]

(* ------------------------ channel-group rebuild ------------------------ *)
\* Element.find(tag): position of the first child with the tag, 0 for None
RECURSIVE FindFrom(_, _, _)
FindFrom(children, tag, i) ==
  IF i > Len(children) THEN 0
  ELSE IF children[i].tag = tag THEN i
  ELSE FindFrom(children, tag, i + 1)

find(children, tag) == FindFrom(children, tag, 1)

remove(children, i) == SubSeq(children, 1, i - 1) \o SubSeq(children, i + 1, Len(children))

GroupElem(group_channels) ==
  [j \in 1..Len(group_channels) |-> [skip |-> "0", text |-> Str(group_channels[j])]]

NewChannelGroups(channel_groups) ==
  [tag |-> "channelGroups",
   groups |-> [g \in 1..Len(channel_groups) |-> GroupElem(channel_groups[g])]]

\* a rebuild that forgets to remove the node the template had
AppendChannelGroups(anat_desc, channel_groups) ==
  Append(anat_desc, NewChannelGroups(channel_groups))

RebuildChannelGroups(anat_desc, channel_groups) ==
  LET i == find(anat_desc, "channelGroups")
      kept == IF i # 0 THEN remove(anat_desc, i) ELSE anat_desc
  IN Append(kept, NewChannelGroups(channel_groups))

(* ------------------------------ date ----------------------------------- *)
SetDate(root, date) ==
  IF date = None THEN [root |-> root, diag |-> {}]
  ELSE IF root.generalInfo = None THEN [root |-> root, diag |-> {"generalInfo"}]
  ELSE IF root.generalInfo[1].date = None THEN [root |-> root, diag |-> {"date"}]
  ELSE [root |-> [root EXCEPT !.generalInfo = Some([@[1] EXCEPT !.date = Some(date[1])])],
        diag |-> {}]

(* ------------------------- region derivation --------------------------- *)
\* regions_dict is a defaultdict: entries in insertion order, an entry is
\* created by the first access to its key
RECURSIVE DictFrom(_, _, _)
DictFrom(regions_dict, region_name, i) ==
  IF i > Len(regions_dict) THEN 0
  ELSE IF regions_dict[i].name = region_name THEN i
  ELSE DictFrom(regions_dict, region_name, i + 1)

DictGet(regions_dict, region_name) ==
  IF DictFrom(regions_dict, region_name, 1) # 0 THEN regions_dict
  ELSE Append(regions_dict,
              [name |-> region_name, channels |-> <<>>, electrodeGroups |-> <<>>])

\* regions_dict[name]['channels'].extend(group); ['electrodeGroups'].append(group_idx)
DictAdd(regions_dict, region_name, group, group_idx) ==
  LET d == DictGet(regions_dict, region_name)
      i == DictFrom(d, region_name, 1)
  IN [d EXCEPT ![i] = [@ EXCEPT !.channels = @ \o group,
                                !.electrodeGroups = Append(@, group_idx)]]

\* for ch in channel_groups[group_idx]: region_array[ch] = region_name
RECURSIVE AssignChannels(_, _, _)
AssignChannels(region_array, group, region_name) ==
  IF group = <<>> THEN region_array
  ELSE AssignChannels([region_array EXCEPT ![Head(group) + 1] = region_name],
                      Tail(group), region_name)

\* the loop visits the labelled groups from the last to the first
RECURSIVE AssignLoopBackwards(_, _, _, _)
AssignLoopBackwards(st, channel_groups, group_regions, k) ==
  IF k > Len(group_regions) THEN st
  ELSE LET rest == AssignLoopBackwards(st, channel_groups, group_regions, k + 1)
       IN IF group_regions[k] = "" THEN rest
          ELSE [regions_dict |-> DictAdd(rest.regions_dict, group_regions[k],
                                         channel_groups[k], k - 1),
                region_array |-> AssignChannels(rest.region_array, channel_groups[k],
                                                group_regions[k])]

\* the loop over enumerate(group_regions); k is group_idx + 1
RECURSIVE AssignLoop(_, _, _, _)
AssignLoop(st, channel_groups, group_regions, k) ==
  IF k > Len(group_regions) THEN st
  ELSE IF group_regions[k] = "" THEN AssignLoop(st, channel_groups, group_regions, k + 1)
  ELSE AssignLoop(
         [regions_dict |-> DictAdd(st.regions_dict, group_regions[k], channel_groups[k], k - 1),
          region_array |-> AssignChannels(st.region_array, channel_groups[k], group_regions[k])],
         channel_groups, group_regions, k + 1)

\* [''] * (n_channels - 1)
ShortRegionArray(n_channels) == [c \in 1..(n_channels - 1) |-> ""]

\* [''] * n_channels
EmptyRegionArray(n_channels) == [c \in 1..n_channels |-> ""]

\* channel_groups[group_idx] or region_array[ch] is indexed out of range
\* (channel indices are non-negative here, so no index wraps around)
RaisesIndexError(n_channels, channel_groups, group_regions) ==
  \E k \in 1..Len(group_regions) :
    /\ group_regions[k] # ""
    /\ \/ k > Len(channel_groups)
       \/ \E j \in 1..Len(channel_groups[k]) : channel_groups[k][j] >= n_channels

RegionText(region_array) ==
  Join([c \in 1..Len(region_array) |-> LabelText(region_array[c])])

RegionNode(entry) ==
  [tag |-> entry.name,
   channels |-> Join([j \in 1..Len(entry.channels) |-> Str(Sorted(entry.channels)[j])]),
   electrodeGroups |->
     Join([j \in 1..Len(entry.electrodeGroups) |-> Str(Sorted(entry.electrodeGroups)[j])])]

\* for region_name, data in regions_dict.items(): insertion order
BrainRegionNodes(regions_dict) ==
  [i \in 1..Len(regions_dict) |-> RegionNode(regions_dict[i])]

BuildRegions(root, channel_groups, group_regions) ==
  IF group_regions = None \/ Len(group_regions[1]) = 0
  THEN [result |-> "ok", root |-> root, diag |-> {}]
  ELSE IF root.acquisitionSystem = None
  THEN [result |-> "ok", root |-> root, diag |-> {"acquisitionSystem"}]
  ELSE IF root.acquisitionSystem[1].nChannels = None
  THEN [result |-> "ok", root |-> root, diag |-> {"nChannels"}]
  ELSE LET n_channels == root.acquisitionSystem[1].nChannels[1]
       IN IF RaisesIndexError(n_channels, channel_groups, group_regions[1])
          THEN [result |-> "IndexError", root |-> root, diag |-> {}]
          ELSE LET st == AssignLoop([regions_dict |-> <<>>,
                                     region_array |-> EmptyRegionArray(n_channels)],
                                    channel_groups, group_regions[1], 1)
                   r1 == IF root.region # None
                         THEN [root EXCEPT !.region = Some(RegionText(st.region_array))]
                         ELSE root
               IN IF root.brainRegions # None
                  THEN [result |-> "ok",
                        root |-> [r1 EXCEPT !.brainRegions =
                                    Some(BrainRegionNodes(st.regions_dict))],
                        diag |-> {}]
                  ELSE [result |-> "ok", root |-> r1, diag |-> {"brainRegions"}]

(* --------------------- generate_xml_with_channel_groups ---------------- *)
\* a validation that only rejects too many labels
TooManyRegions(channel_groups, group_regions) ==
  group_regions # None /\ Len(group_regions[1]) > Len(channel_groups)

LengthMismatch(channel_groups, group_regions) ==
  group_regions # None /\ Len(group_regions[1]) # Len(channel_groups)

Raise(error, warnings) == [result |-> error, root |-> <<>>, diag |-> warnings]

\* everything the function does before it opens the output file
Annotate(a, files) ==
  IF LengthMismatch(a.channel_groups, a.group_regions) THEN Raise("ValueError", {})
  ELSE IF ~Parseable(files[TemplatePath]) THEN Raise("ParseError", {})
  ELSE LET root == Parse(files[TemplatePath])
       IN IF root.anatomicalDescription = None THEN Raise("ValueError", {})
          ELSE LET r1 == [root EXCEPT !.anatomicalDescription =
                            Some(RebuildChannelGroups(@[1], a.channel_groups))]
                   r2 == SetDate(r1, a.date)
                   r3 == BuildRegions(r2.root, a.channel_groups, a.group_regions)
               IN IF r3.result # "ok" THEN Raise(r3.result, r2.diag)
                  ELSE [result |-> "ok", root |-> <<r3.root>>, diag |-> r2.diag \cup r3.diag]

(* ------------------------------ inputs --------------------------------- *)
Labels == {"", "A", "B"}
Channels == 0..MaxChan
GroupSet == SeqsUpTo(Channels, MaxGroupLen)
ChannelGroupSets == SeqsUpTo(GroupSet, MaxGroups)

\* None, every labelling of the right length, and one labelling of each wrong length
RegionChoices(channel_groups) ==
  LET k == Len(channel_groups)
  IN {None} \cup {Some(l) : l \in [1..k -> Labels]}
            \cup {Some([i \in 1..(k + 1) |-> "A"])}
            \cup (IF k > 0 THEN {Some([i \in 1..(k - 1) |-> "A"])} ELSE {})

Dates == {None, Some("2025-11-17")}

MakeArgs(o, cg, d, gr) ==
  [output_xml_path |-> o, channel_groups |-> cg, date |-> d, group_regions |-> gr]

OtherChild == [tag |-> "other", groups |-> <<>>]
OldChannelGroups ==
  [tag |-> "channelGroups", groups |-> << <<[skip |-> "1", text |-> Str(0)]>> >>]
OldRegion == [tag |-> "OLD", channels |-> Str(0), electrodeGroups |-> Str(0)]

\* the template every section of which is present, with more channels than the
\* largest channel index a call may name
FullTemplate ==
  [generalInfo |-> Some([date |-> Some("2020-01-01")]),
   acquisitionSystem |-> Some([nChannels |-> Some(MaxChan + 2)]),
   anatomicalDescription |-> Some(<<OldChannelGroups, OtherChild>>),
   region |-> Some(<<"x">>),
   brainRegions |-> Some(<<OldRegion>>),
   notes |-> <<"n">>]

AllTemplates ==
  [generalInfo : {None, Some([date |-> None]), FullTemplate.generalInfo},
   acquisitionSystem : {None, Some([nChannels |-> None])}
                         \cup {Some([nChannels |-> Some(n)]) : n \in {MaxChan, MaxChan + 2}},
   anatomicalDescription : {None, Some(<<OtherChild>>), FullTemplate.anatomicalDescription},
   region : {None, FullTemplate.region},
   brainRegions : {None, FullTemplate.brainRegions},
   notes : {<<"n">>, <<"n", "", "n">>}]

Fields == {"generalInfo", "acquisitionSystem", "anatomicalDescription", "region",
           "brainRegions", "notes"}

\* the number of sections in which a template differs from the full one
Deviations(t) == Cardinality({f \in Fields : t[f] # FullTemplate[f]})

Templates == {t \in AllTemplates : Deviations(t) <= MaxDeviations}

NoArgs == [output_xml_path |-> "output.xml", channel_groups |-> <<>>,
           date |-> None, group_regions |-> None]

(* ------------------------------ actions -------------------------------- *)
Init ==
  /\ fs \in {[p \in OutputPaths |-> IF p = TemplatePath THEN XmlFile(t) ELSE o] :
               t \in Templates, o \in {MissingFile, ForeignFile}}
  /\ pc = "idle"
  /\ calls = 0
  /\ args = NoArgs
  /\ pre = fs
  /\ result = "none"
  /\ diag = {}
  /\ pending = <<>>
  /\ prev = [result |-> "none", out |-> MissingFile, tpl |-> MissingFile]

\* One call, up to and including open(output_xml_path, 'w').  The write itself
\* is the next step, so that the file between open and close is a state.
\* `opens` is whether the open succeeds.
Call(a, opens) ==
  /\ LET att == Annotate(a, fs)
     IN /\ diag' = att.diag
        /\ IF att.result # "ok"
           THEN /\ opens
                /\ result' = att.result
                /\ pending' = <<>>
                /\ pc' = "idle"
                /\ fs' = fs
           ELSE /\ pending' = <<prettify_xml(att.root[1])>>
                /\ IF opens
                   THEN /\ result' = "running"
                        /\ pc' = "writing"
                        /\ fs' = [fs EXCEPT ![a.output_xml_path] = OpenW(@)]
                   ELSE /\ result' = "OSError"
                        /\ pc' = "idle"
                        /\ fs' = fs
  /\ args' = a
  /\ pre' = fs
  /\ calls' = calls + 1
  /\ prev' = [result |-> result, out |-> fs[a.output_xml_path], tpl |-> pre[TemplatePath]]

\* the first run of the annotator, with any arguments
FirstCall ==
  /\ pc = "idle"
  /\ calls = 0
  /\ \E o \in OutputPaths, cg \in ChannelGroupSets, d \in Dates, opens \in BOOLEAN :
       \E gr \in RegionChoices(cg) : Call(MakeArgs(o, cg, d, gr), opens)

\* the annotator is run again with the arguments of the run before
Rerun ==
  /\ pc = "idle"
  /\ calls > 0
  /\ calls < MaxCalls
  /\ \E opens \in BOOLEAN : Call(args, opens)

WriteDone ==
  /\ pc = "writing"
  /\ fs' = [fs EXCEPT ![args.output_xml_path] = WriteAll(@, pending[1])]
  /\ result' = "ok"
  /\ pc' = "idle"
  /\ UNCHANGED <<calls, args, pre, diag, pending, prev>>

WriteFails ==
  /\ pc = "writing"
  /\ fs' = [fs EXCEPT ![args.output_xml_path] = WritePart(@, pending[1])]
  /\ result' = "OSError"
  /\ pc' = "idle"
  /\ UNCHANGED <<calls, args, pre, diag, pending, prev>>

Next ==
  \/ FirstCall
  \/ Rerun
  \/ WriteDone
  \/ WriteFails

Spec == Init /\ [][Next]_vars

(* ------------------------ reading the last call ------------------------ *)
\* the last call has returned or raised
Returned == pc = "idle" /\ calls > 0
Succeeded == Returned /\ result = "ok"

OutFile == fs[args.output_xml_path]
\* the output document of a call that succeeded
OutDoc == Parse(OutFile)
\* the template as the last call read it
Tpl == Parse(pre[TemplatePath])

LabelsGiven == args.group_regions # None /\ Len(args.group_regions[1]) > 0
GivenLabels == args.group_regions[1]

HasNChannels(t) == t.acquisitionSystem # None /\ t.acquisitionSystem[1].nChannels # None
NChannelsOf(t) == t.acquisitionSystem[1].nChannels[1]

\* the entries of a space-separated text, empty entries included
RECURSIVE Split(_)
Split(text) ==
  IF text = <<>> THEN << <<>> >>
  ELSE LET rest == Split(Tail(text))
       IN IF Head(text) = " " THEN << <<>> >> \o rest
          ELSE << <<Head(text)>> \o Head(rest) >> \o Tail(rest)

\* the numbers a space-separated text lists
Numbers(text) == SelectSeq(Split(text), LAMBDA e : e # <<>>)

\* the groups with a non-empty label that contain channel c
Owners(c) ==
  {k \in 1..Len(GivenLabels) :
     /\ k <= Len(args.channel_groups)
     /\ GivenLabels[k] # ""
     /\ c \in Range(args.channel_groups[k])}

SetMax(S) == CHOOSE x \in S : \A y \in S : y <= x
SetMin(S) == CHOOSE x \in S : \A y \in S : x <= y

\* the elements of a set of numbers in ascending order, as texts
RECURSIVE Ascending(_)
Ascending(S) == IF S = {} THEN <<>> ELSE <<Str(SetMin(S))>> \o Ascending(S \ {SetMin(S)})

ChannelGroupsNodes(anat) == {i \in 1..Len(anat) : anat[i].tag = "channelGroups"}

(* ------------------------------- C1 ------------------------------------ *)
RegionsMismatch ==
  args.group_regions # None /\ Len(args.group_regions[1]) # Len(args.channel_groups)

NoAnatomicalDescription ==
  Parseable(pre[TemplatePath]) /\ Tpl.anatomicalDescription = None

\* C1: a call that fails validation (group_regions given with a length other
\* than len(channel_groups), or a template without anatomicalDescription)
\* raises ValueError and leaves every file, the output file included, as it
\* was before the call: not created, not modified.
C1_ValidationFailureWritesNothing ==
  (calls > 0 /\ (RegionsMismatch \/ NoAnatomicalDescription))
    => /\ pc = "idle"
       /\ result = "ValueError"
       /\ fs = pre

\* fewer labels than groups, on a template that has every section, with a file
\* already at the output path
C1_Witness ==
  /\ Returned
  /\ RegionsMismatch
  /\ Len(GivenLabels) < Len(args.channel_groups)
  /\ pre[TemplatePath] = XmlFile(FullTemplate)
  /\ pre["output.xml"] = ForeignFile
  /\ args.output_xml_path = "output.xml"
  /\ result = "ValueError"

(* ------------------------------- C2 ------------------------------------ *)
\* C2: after a successful call the output's anatomicalDescription holds exactly
\* one channelGroups node; it has len(channel_groups) group children, and the
\* i-th group's channel children carry the indices of input group i as text,
\* in the same order, each with skip = 0.
C2_ChannelGroupsRebuilt ==
  Succeeded =>
    LET anat == OutDoc.anatomicalDescription[1]
        nodes == ChannelGroupsNodes(anat)
    IN /\ Cardinality(nodes) = 1
       /\ \A n \in nodes :
            /\ Len(anat[n].groups) = Len(args.channel_groups)
            /\ \A i \in 1..Len(args.channel_groups) :
                 /\ Len(anat[n].groups[i]) = Len(args.channel_groups[i])
                 /\ \A j \in 1..Len(args.channel_groups[i]) :
                      /\ anat[n].groups[i][j].text = <<ToString(args.channel_groups[i][j])>>
                      /\ anat[n].groups[i][j].skip = "0"

\* the template had a channelGroups node, and two groups are given, the first
\* with two different channels in descending order
C2_Witness ==
  /\ Succeeded
  /\ ChannelGroupsNodes(Tpl.anatomicalDescription[1]) # {}
  /\ Len(args.channel_groups) = 2
  /\ args.channel_groups[1] = <<1, 0>>
  /\ OutDoc.anatomicalDescription[1][2].groups[1] =
       <<[skip |-> "0", text |-> <<"1">>], [skip |-> "0", text |-> <<"0">>]>>

(* ------------------------------- C4 ------------------------------------ *)
RegionWritten ==
  /\ Succeeded
  /\ LabelsGiven
  /\ HasNChannels(Tpl)
  /\ Tpl.region # None

\* C4: whenever the flat region field is written, it has exactly nChannels
\* entries, and the entry of every channel that belongs to no group with a
\* non-empty label is the empty label.
C4_RegionArrayLength ==
  RegionWritten =>
    LET entries == Split(OutDoc.region[1])
    IN /\ Len(entries) = NChannelsOf(Tpl)
       /\ \A c \in 0..(NChannelsOf(Tpl) - 1) :
            (Owners(c) = {} /\ c + 1 <= Len(entries)) => entries[c + 1] = <<>>

\* one labelled group and one unlabelled group: channel 1 only belongs to the
\* unlabelled one
C4_Witness ==
  /\ RegionWritten
  /\ args.channel_groups = << <<0>>, <<1>> >>
  /\ GivenLabels = <<"A", "">>
  /\ OutDoc.region[1] = <<"A", " ", " ">>

(* ------------------------------- C5 ------------------------------------ *)
BrainRegionsWritten ==
  /\ Succeeded
  /\ LabelsGiven
  /\ HasNChannels(Tpl)
  /\ Tpl.brainRegions # None

\* the brainRegions children named after a label
RegionChildren(label) ==
  {i \in 1..Len(OutDoc.brainRegions[1]) : OutDoc.brainRegions[1][i].tag = label}

\* C5: a channel shared by several labelled groups holds, in the flat region
\* array, the label of the last of them, and the brainRegions summary of the
\* label of each of them lists the channel.
C5_LastWriteWins ==
  (RegionWritten /\ BrainRegionsWritten) =>
    \A c \in 0..(NChannelsOf(Tpl) - 1) :
      Cardinality(Owners(c)) >= 2 =>
        /\ Split(OutDoc.region[1])[c + 1] = LabelText(GivenLabels[SetMax(Owners(c))])
        /\ \A k \in Owners(c) :
             /\ RegionChildren(GivenLabels[k]) # {}
             /\ \A i \in RegionChildren(GivenLabels[k]) :
                  <<ToString(c)>> \in Range(Numbers(OutDoc.brainRegions[1][i].channels))

\* groups [0, 1] and [1] labelled A and B: channel 1 is B in the array and is
\* listed under A and under B
C5_Witness ==
  /\ RegionWritten
  /\ BrainRegionsWritten
  /\ args.channel_groups = << <<0, 1>>, <<1>> >>
  /\ GivenLabels = <<"A", "B">>
  /\ OutDoc.region[1] = <<"A", " ", "B", " ">>
  /\ OutDoc.brainRegions[1][1].channels = <<"0", " ", "1">>

(* ------------------------------- C10 ----------------------------------- *)
\* the distinct non-empty labels in the order of the first group carrying each
RECURSIVE FirstSeen(_, _)
FirstSeen(labels, seen) ==
  IF labels = <<>> THEN <<>>
  ELSE IF Head(labels) = "" \/ Head(labels) \in seen THEN FirstSeen(Tail(labels), seen)
  ELSE <<Head(labels)>> \o FirstSeen(Tail(labels), seen \cup {Head(labels)})

\* the call before the last one succeeded, and the last one read the template
\* that call read
RanTwice ==
  /\ Succeeded
  /\ calls >= 2
  /\ prev.result = "ok"
  /\ pre[TemplatePath] = prev.tpl

\* C10: a second successful call with the same arguments against the unchanged
\* template leaves at the output path exactly what the first call left there,
\* and the brainRegions children of a successful call are the labels in the
\* order of the first group that carries each.
C10_Idempotent ==
  /\ RanTwice => OutFile = prev.out
  /\ BrainRegionsWritten =>
       [i \in 1..Len(OutDoc.brainRegions[1]) |-> OutDoc.brainRegions[1][i].tag]
         = FirstSeen(GivenLabels, {})

\* two runs with labels B then A, into a separate output file
C10_Witness ==
  /\ RanTwice
  /\ BrainRegionsWritten
  /\ args.output_xml_path = "output.xml"
  /\ GivenLabels = <<"B", "A">>
  /\ OutDoc.brainRegions[1][1].tag = "B"
  /\ OutFile = prev.out

(* ------------------------------- C3 ------------------------------------ *)
\* C3: whatever the arguments, the output path included, and whether or not
\* the call fails, the file at template_xml_path holds after the call what it
\* held before it.
C3_TemplateNeverModified ==
  calls > 0 => fs[TemplatePath] = pre[TemplatePath]

(* ------------------------------- C6 ------------------------------------ *)
\* the channels of all groups carrying a label
LabelChannels(label) ==
  UNION {Range(args.channel_groups[k]) :
           k \in {i \in 1..Len(GivenLabels) : GivenLabels[i] = label}}

LabelGroups(label) == {k - 1 : k \in {i \in 1..Len(GivenLabels) : GivenLabels[i] = label}}

\* C6: after a successful call with non-empty group_regions on a template with
\* nChannels and brainRegions, brainRegions has exactly one child per distinct
\* non-empty label; its channels field lists the union of the channels of the
\* groups carrying the label, each once, ascending; its electrodeGroups field
\* lists the indices of those groups, ascending; the template's children are gone.
C6_BrainRegionsSummary ==
  BrainRegionsWritten =>
    LET nodes == OutDoc.brainRegions[1]
        named == Range(GivenLabels) \ {""}
    IN /\ Len(nodes) = Cardinality(named)
       /\ \A label \in named : Cardinality(RegionChildren(label)) = 1
       /\ \A i \in 1..Len(nodes) :
            /\ nodes[i].tag \in named
            /\ Numbers(nodes[i].channels) = Ascending(LabelChannels(nodes[i].tag))
            /\ Numbers(nodes[i].electrodeGroups) = Ascending(LabelGroups(nodes[i].tag))

(* ------------------------------- C7 ------------------------------------ *)
\* the optional sections the last call needed and the template lacked
MissingSections ==
  (IF args.date # None /\ Tpl.generalInfo = None THEN {"generalInfo"} ELSE {})
  \cup (IF args.date # None /\ Tpl.generalInfo # None /\ Tpl.generalInfo[1].date = None
        THEN {"date"} ELSE {})
  \cup (IF LabelsGiven /\ Tpl.acquisitionSystem = None THEN {"acquisitionSystem"} ELSE {})
  \cup (IF LabelsGiven /\ Tpl.acquisitionSystem # None /\ ~HasNChannels(Tpl)
        THEN {"nChannels"} ELSE {})
  \cup (IF LabelsGiven /\ HasNChannels(Tpl) /\ Tpl.region = None THEN {"region"} ELSE {})
  \cup (IF LabelsGiven /\ HasNChannels(Tpl) /\ Tpl.brainRegions = None
        THEN {"brainRegions"} ELSE {})

\* a call that nothing but a missing optional section could stop: the template
\* parses and has anatomicalDescription, the labels match the groups, every
\* channel index is below nChannels, and the file system takes the write
WellFormedCall ==
  /\ Returned
  /\ result # "OSError"
  /\ ~RegionsMismatch
  /\ Parseable(pre[TemplatePath])
  /\ Tpl.anatomicalDescription # None
  /\ HasNChannels(Tpl) =>
       \A k \in 1..Len(args.channel_groups) :
         \A c \in Range(args.channel_groups[k]) : c < NChannelsOf(Tpl)

\* C7: when an optional section the call needs is missing, the call still
\* succeeds and writes the output, and its diagnostics name every such section.
C7_MissingSectionWarned ==
  (WellFormedCall /\ MissingSections # {}) =>
    /\ result = "ok"
    /\ Parseable(OutFile)
    /\ MissingSections \subseteq diag

(* ------------------------------- C8 ------------------------------------ *)
OtherChildren(anat) == SelectSeq(anat, LAMBDA ch : ch.tag # "channelGroups")

\* C8: the output differs from the template only in the sections the inputs
\* address: channelGroups always, generalInfo.date only when a date is given,
\* region and brainRegions only when non-empty group_regions is given.
C8_EditsConfined ==
  Succeeded =>
    /\ OutDoc.notes = Tpl.notes
    /\ OutDoc.acquisitionSystem = Tpl.acquisitionSystem
    /\ OtherChildren(OutDoc.anatomicalDescription[1])
         = OtherChildren(Tpl.anatomicalDescription[1])
    /\ args.date = None => OutDoc.generalInfo = Tpl.generalInfo
    /\ (OutDoc.generalInfo = None) = (Tpl.generalInfo = None)
    /\ ~LabelsGiven => /\ OutDoc.region = Tpl.region
                       /\ OutDoc.brainRegions = Tpl.brainRegions
    /\ (args.channel_groups = <<>> /\ args.date = None /\ args.group_regions = None)
         => \A i \in ChannelGroupsNodes(OutDoc.anatomicalDescription[1]) :
              OutDoc.anatomicalDescription[1][i].groups = <<>>

(* ------------------------------- C9 ------------------------------------ *)
\* C9: at every point during and after a call, the file at output_xml_path
\* holds its complete previous content or the complete new document.
C9_AtomicWrite ==
  calls > 0 =>
    \/ OutFile = pre[args.output_xml_path]
    \/ pending # <<>> /\ OutFile = [exists |-> TRUE, data |-> <<pending[1]>>]

====
